---- MODULE Spec2Model ----
(***************************************************************************)
(* A model of src/search.py: the Search namespace of the SDK client.       *)
(* Search.gpt validates and broadcasts its parameters and calls the        *)
(* ChatGPT delegate inside a bounded retry loop; Search.web resolves two   *)
(* defaults, validates the query and calls the search delegate once.       *)
(***************************************************************************)
EXTENDS Integers, Sequences, FiniteSets, TLC

VARIABLES
    pc,            \* position of the caller: "idle", "gpt_try", "gpt_sleep", "web_try", "done"
    op,            \* the operation called: "", "gpt" or "web"
    args,          \* the caller's arguments of the call
    locals,        \* the local variables of the running call
    attempt,       \* the retry loop's variable of gpt
    scrape_calls,  \* the argument records chatgpt_api.scrape_chatgpt received
    search_calls,  \* the argument records search_api.search received
    log,           \* delegate calls, with their outcome, and sleeps, in order
    outcome,       \* how the call ended: a returned value or a raised error
    client         \* the root client's configuration (self._c)

vars == <<pc, op, args, locals, attempt, scrape_calls, search_calls, log, outcome, client>>

----------------------------------------------------------------------------
(* Bounds of the model *)

\* longest prompt, companion and query list the caller passes
MaxLen == 2
\* longest string the caller passes as a country or a query
MaxStrLen == 3
\* largest integer the caller passes as a timeout
MaxTimeout == 2

----------------------------------------------------------------------------
(* Python values: a type tag, and the payload of a str (its characters),   *)
(* of an int or bool (its number) and of a list (its items).               *)

PyNone == [t |-> "NoneType", s |-> <<>>, n |-> 0, l |-> <<>>]
PyStr(cs) == [t |-> "str", s |-> cs, n |-> 0, l |-> <<>>]
PyInt(i) == [t |-> "int", s |-> <<>>, n |-> i, l |-> <<>>]
PyBool(b) == [t |-> "bool", s |-> <<>>, n |-> IF b THEN 1 ELSE 0, l |-> <<>>]
PyList(items) == [t |-> "list", s |-> <<>>, n |-> 0, l |-> items]

\* isinstance(v, cls): bool is a subclass of int
isinstance(v, cls) ==
    \/ v.t = cls
    \/ cls = "int" /\ v.t = "bool"

\* bool(v): None, "", 0, False and [] are false
Truthy(v) ==
    CASE v.t = "NoneType" -> FALSE
      [] v.t = "str" -> Len(v.s) > 0
      [] v.t = "list" -> Len(v.l) > 0
      [] OTHER -> v.n # 0

\* a or b
PyOr(a, b) == IF Truthy(a) THEN a ELSE b

UpperAZ == {"A", "B", "C", "D", "E", "F", "G", "H", "I", "J", "K", "L", "M",
            "N", "O", "P", "Q", "R", "S", "T", "U", "V", "W", "X", "Y", "Z"}

Whitespace == {" ", "\t", "\n", "\r", "\f"}

\* re.match(r"^[A-Z]{2}$", cs) on a str: without re.MULTILINE, $ matches at
\* the end of the string and also just before a newline that ends the string.
re_match_country(cs) ==
    /\ Len(cs) >= 2
    /\ cs[1] \in UpperAZ
    /\ cs[2] \in UpperAZ
    /\ \/ Len(cs) = 2
       \/ Len(cs) = 3 /\ cs[3] = "\n"

RECURSIVE lstrip(_)
lstrip(cs) ==
    IF cs # <<>> /\ Head(cs) \in Whitespace THEN lstrip(Tail(cs)) ELSE cs

RECURSIVE rstrip(_)
rstrip(cs) ==
    IF cs # <<>> /\ cs[Len(cs)] \in Whitespace
    THEN rstrip(SubSeq(cs, 1, Len(cs) - 1))
    ELSE cs

\* str.strip()
strip(cs) == rstrip(lstrip(cs))

----------------------------------------------------------------------------
(* How a call ends *)

NoOutcome == [kind |-> "none", exc |-> "", msg |-> "", val |-> "", err |-> 0]
Returned(r) == [kind |-> "return", exc |-> "", msg |-> "", val |-> r, err |-> 0]
\* an error this module raises
Raised(exc, msg) == [kind |-> "raise", exc |-> exc, msg |-> msg, val |-> "", err |-> 0]
\* an error a delegate raised: err identifies the raised object by the
\* delegate call (1, 2, ...) that raised it
Propagated(exc, id) == [kind |-> "raise", exc |-> exc, msg |-> "", val |-> "", err |-> id]

CallEvent(out, r, id) == [kind |-> "call", out |-> out, val |-> r, err |-> id, secs |-> 0]
SleepEvent(secs) == [kind |-> "sleep", out |-> "", val |-> "", err |-> 0, secs |-> secs]

NoLocals == [none |-> TRUE]

----------------------------------------------------------------------------
(* Search.gpt: normalisation and validation, lines 41-78 *)

MsgPrompt == "Invalid prompt input: must be a non-empty string or list of strings."
MsgNoPrompt == "At least one prompt is required."
MsgLength == "list must have the same length as prompts."
MsgCountry == "Invalid country code. Must be 2 uppercase letters."
MsgSecondary == "Secondary prompts must be strings."
MsgWebSearch == "Web search flags must be boolean."
MsgTimeout == "Timeout must be a positive integer."
MsgReMatch == "expected string or bytes-like object"

\* lines 41-46: a str becomes a one-element list, a list of str is kept
normalize_prompts(prompt) ==
    IF isinstance(prompt, "str")
    THEN [ok |-> TRUE, v |-> <<prompt>>]
    ELSE IF isinstance(prompt, "list")
            /\ \A i \in DOMAIN prompt.l : isinstance(prompt.l[i], "str")
    THEN [ok |-> TRUE, v |-> prompt.l]
    ELSE [ok |-> FALSE, v |-> <<>>]

\* normalize without the length check of lines 56-57
normalize_unchecked(param, prompts) ==
    IF param = PyNone
    THEN [ok |-> TRUE, v |-> [i \in 1..Len(prompts) |-> PyNone]]
    ELSE IF isinstance(param, "list")
    THEN [ok |-> TRUE, v |-> param.l]
    ELSE [ok |-> TRUE, v |-> [i \in 1..Len(prompts) |-> param]]

\* lines 52-59
normalize(param, prompts) ==
    IF param = PyNone
    THEN [ok |-> TRUE, v |-> [i \in 1..Len(prompts) |-> PyNone]]
    ELSE IF isinstance(param, "list")
    THEN IF Len(param.l) # Len(prompts)
         THEN [ok |-> FALSE, v |-> <<>>]
         ELSE [ok |-> TRUE, v |-> param.l]
    ELSE [ok |-> TRUE, v |-> [i \in 1..Len(prompts) |-> param]]

\* lines 66-68: the first entry that raises decides; re.match raises
\* TypeError on a value that is not a str
RECURSIVE check_countries(_)
check_countries(cs) ==
    IF cs = <<>> THEN ""
    ELSE LET c == Head(cs) IN
         IF ~Truthy(c) THEN check_countries(Tail(cs))
         ELSE IF ~isinstance(c, "str") THEN "TypeError"
         ELSE IF ~re_match_country(c.s) THEN "ValidationError"
         ELSE check_countries(Tail(cs))

\* lines 69-71
check_secondary(ss) ==
    \A i \in DOMAIN ss : ~(ss[i] # PyNone /\ ~isinstance(ss[i], "str"))

\* lines 72-74
check_web_searches(ws) ==
    \A i \in DOMAIN ws : isinstance(ws[i], "bool")

\* check_timeout with "timeout < 0" for "timeout <= 0"
check_timeout_negative(timeout) ==
    ~(timeout # PyNone /\ (~isinstance(timeout, "int") \/ timeout.n < 0))

\* line 75
check_timeout(timeout) ==
    ~(timeout # PyNone /\ (~isinstance(timeout, "int") \/ timeout.n <= 0))

\* line 78
resolve_timeout(timeout, sync) ==
    PyOr(timeout, IF sync THEN PyInt(65) ELSE PyInt(30))

Fail(exc, msg) == [exc |-> exc, msg |-> msg, locals |-> NoLocals]
Pass(l) == [exc |-> "", msg |-> "", locals |-> l]

\* lines 41-78, in the order of the code
gpt_validate(a) ==
    LET p == normalize_prompts(a.prompt) IN
    IF ~p.ok THEN Fail("ValidationError", MsgPrompt)
    ELSE IF ~Truthy(PyList(p.v)) THEN Fail("ValidationError", MsgNoPrompt)
    ELSE
    LET c == normalize(a.country, p.v) IN
    IF ~c.ok THEN Fail("ValidationError", MsgLength)
    ELSE
    LET s == normalize(a.secondaryPrompt, p.v) IN
    IF ~s.ok THEN Fail("ValidationError", MsgLength)
    ELSE
    LET w == normalize(a.webSearch, p.v) IN
    IF ~w.ok THEN Fail("ValidationError", MsgLength)
    ELSE
    LET cc == check_countries(c.v) IN
    IF cc = "TypeError" THEN Fail("TypeError", MsgReMatch)
    ELSE IF cc = "ValidationError" THEN Fail("ValidationError", MsgCountry)
    ELSE IF ~check_secondary(s.v) THEN Fail("ValidationError", MsgSecondary)
    ELSE IF ~check_web_searches(w.v) THEN Fail("ValidationError", MsgWebSearch)
    ELSE IF ~check_timeout(a.timeout) THEN Fail("ValidationError", MsgTimeout)
    ELSE Pass([prompts |-> p.v,
               countries |-> c.v,
               secondary_prompts |-> s.v,
               web_searches |-> w.v,
               sync |-> a.sync,
               timeout |-> resolve_timeout(a.timeout, a.sync)])

\* scrape_args with countries and additional_prompts exchanged
scrape_args_swapped(l) ==
    [prompts |-> l.prompts,
     countries |-> l.secondary_prompts,
     additional_prompts |-> l.countries,
     web_searches |-> l.web_searches,
     sync |-> l.sync,
     timeout |-> l.timeout]

\* lines 85-92: the keyword arguments of scrape_chatgpt
scrape_args(l) ==
    [prompts |-> l.prompts,
     countries |-> l.countries,
     additional_prompts |-> l.secondary_prompts,
     web_searches |-> l.web_searches,
     sync |-> l.sync,
     timeout |-> l.timeout]

\* line 81
max_retries == 3

\* an except clause that catches every Exception
is_caught_all(exc) == TRUE

\* line 93: the except clause catches APIError alone
is_caught(exc) == exc = "APIError"

\* attempts_remain with "attempt < max_retries" for "attempt < max_retries - 1"
attempts_remain_off_by_one(a) == a < max_retries

\* line 94
attempts_remain(a) == a < max_retries - 1

\* line 95
sleep_seconds == 2

----------------------------------------------------------------------------
(* Search.web: defaults, validation and forwarding, lines 115-132 *)

MsgQueryNone == "The 'query' parameter cannot be None or empty."
MsgQueryBlank == "The 'query' string cannot be empty or whitespace."
MsgQueryList == "All queries in the list must be non-empty strings."
MsgQueryType == "The 'query' parameter must be a string or a list of strings."

\* resolve_zone that ignores the caller's zone
resolve_zone_configured(zone, c) == c.serp_zone

\* line 115
resolve_zone(zone, c) == PyOr(zone, c.serp_zone)

\* line 116
resolve_max_workers(max_workers, c) == PyOr(max_workers, c.DEFAULT_MAX_WORKERS)

\* lines 118-127: "" when the query passes
web_validate(query) ==
    IF ~Truthy(query) THEN Raised("ValueError", MsgQueryNone)
    ELSE IF isinstance(query, "str")
    THEN IF ~Truthy(PyStr(strip(query.s)))
         THEN Raised("ValueError", MsgQueryBlank)
         ELSE NoOutcome
    ELSE IF isinstance(query, "list")
    THEN IF ~\A i \in DOMAIN query.l :
                 isinstance(query.l[i], "str") /\ Truthy(PyStr(strip(query.l[i].s)))
         THEN Raised("ValueError", MsgQueryList)
         ELSE NoOutcome
    ELSE Raised("TypeError", MsgQueryType)

\* lines 129-132: the positional arguments of search_api.search
search_args(a, zone, max_workers) ==
    [query |-> a.query,
     search_engine |-> a.search_engine,
     zone |-> zone,
     response_format |-> a.response_format,
     method |-> a.method,
     country |-> a.country,
     data_format |-> a.data_format,
     async_request |-> a.async_request,
     max_workers |-> max_workers,
     timeout |-> a.timeout,
     parse |-> a.parse]

----------------------------------------------------------------------------
(* The arguments the caller passes *)

SeqsUpTo(S, n) == UNION {[1..k -> S] : k \in 0..n}

\* an uppercase letter, a lowercase letter and a whitespace character
Chars == {"U", "s", "\n"}
Strings == SeqsUpTo(Chars, MaxStrLen)

US == PyStr(<<"U", "U">>)
hi == PyStr(<<"s">>)
bye == PyStr(<<"U">>)

\* gpt's defaults, line 18-22
GptDefaults ==
    [prompt |-> hi, country |-> PyNone, secondaryPrompt |-> PyNone,
     webSearch |-> PyBool(FALSE), sync |-> TRUE, timeout |-> PyNone]

PromptElems == {PyStr(<<>>), hi, PyInt(1)}
PromptInputs ==
    {PyNone} \cup PromptElems \cup {PyList(l) : l \in SeqsUpTo(PromptElems, MaxLen)}

\* prompts of every shape against companions that are absent, scalars of a
\* good or bad type, and lists of every length
BroadcastInputs ==
    {[GptDefaults EXCEPT !.prompt = p, !.country = c, !.secondaryPrompt = s, !.webSearch = w] :
        p \in PromptInputs,
        c \in {PyNone, US, PyInt(5)} \cup {PyList(l) : l \in SeqsUpTo({PyNone, US}, MaxLen)},
        s \in {PyNone, hi, PyInt(5)} \cup {PyList(l) : l \in SeqsUpTo({PyNone, hi}, MaxLen)},
        w \in {PyBool(FALSE), PyBool(TRUE), PyNone, PyInt(1)}
              \cup {PyList(l) : l \in SeqsUpTo({PyBool(TRUE), PyBool(FALSE)}, MaxLen)}}

\* every short string, and values that are not strings, as a country
CountryScalars ==
    {PyNone, PyInt(0), PyInt(5), PyBool(FALSE), PyBool(TRUE)} \cup {PyStr(cs) : cs \in Strings}
CountryInputs ==
    {[GptDefaults EXCEPT !.prompt = p, !.country = c] :
        p \in {hi, PyList(<<hi, bye>>)},
        c \in CountryScalars \cup {PyList(<<US, x>>) : x \in CountryScalars}}

\* timeouts of every type and sign, in both modes
TimeoutValues ==
    {PyNone, hi, PyBool(FALSE), PyBool(TRUE)} \cup {PyInt(i) : i \in -1..MaxTimeout}
TimeoutInputs ==
    {[GptDefaults EXCEPT !.country = c, !.sync = y, !.timeout = t] :
        c \in {PyNone, US, PyInt(5)}, y \in BOOLEAN, t \in TimeoutValues}

GptInputs == BroadcastInputs \cup CountryInputs \cup TimeoutInputs

\* web's defaults, lines 103-112
WebDefaults ==
    [query |-> hi, search_engine |-> "google", zone |-> PyNone,
     response_format |-> "raw", method |-> "GET", country |-> "",
     data_format |-> "html", async_request |-> FALSE, max_workers |-> PyNone,
     timeout |-> PyNone, parse |-> FALSE]

QueryElems == {PyStr(<<>>), hi, PyStr(<<"\n">>), PyInt(1)}
QueryInputs ==
    {PyNone, PyInt(0), PyInt(5), PyBool(FALSE), PyBool(TRUE)}
    \cup {PyStr(cs) : cs \in Strings}
    \cup {PyList(l) : l \in SeqsUpTo(QueryElems, MaxLen)}

WebInputs ==
    {[WebDefaults EXCEPT !.query = q, !.zone = z, !.max_workers = m,
                         !.search_engine = e, !.timeout = t] :
        q \in QueryInputs,
        z \in {PyNone, PyStr(<<>>), PyStr(<<"U">>)},
        m \in {PyNone, PyInt(0), PyInt(2)},
        e \in {"google", "bing"},
        t \in {PyNone, PyInt(5)}}

\* what a delegate may return
Results == {"dict", "snapshot"}
\* what a delegate may raise
Errors == {"APIError", "OtherError"}

----------------------------------------------------------------------------
(* The state machine *)

\* the root client the Search object holds (line 12); its configuration is
\* set before Search is built
ClientConfig ==
    [serp_zone |-> PyStr(<<"s", "U">>), DEFAULT_MAX_WORKERS |-> PyInt(10)]

Init ==
    /\ pc = "idle"
    /\ op = ""
    /\ args = NoLocals
    /\ locals = NoLocals
    /\ attempt = 0
    /\ scrape_calls = <<>>
    /\ search_calls = <<>>
    /\ log = <<>>
    /\ outcome = NoOutcome
    /\ client = ClientConfig

\* gpt is called with the arguments a: lines 41-82, up to the first
\* delegate call
gpt(a) ==
    /\ op' = "gpt"
    /\ args' = a
    /\ LET v == gpt_validate(a) IN
       IF v.exc # ""
       THEN /\ pc' = "done"
            /\ outcome' = Raised(v.exc, v.msg)
            /\ locals' = NoLocals
       ELSE /\ pc' = "gpt_try"
            /\ outcome' = outcome
            /\ locals' = v.locals
    /\ attempt' = 0
    /\ UNCHANGED <<scrape_calls, search_calls, log, client>>

GptCall ==
    /\ pc = "idle"
    /\ \E a \in GptInputs : gpt(a)

\* lines 85-92: the delegate is called and returns r, which gpt returns
ScrapeReturns(r) ==
    /\ pc = "gpt_try"
    /\ attempt < max_retries
    /\ scrape_calls' = Append(scrape_calls, scrape_args(locals))
    /\ log' = Append(log, CallEvent("return", r, 0))
    /\ outcome' = Returned(r)
    /\ pc' = "done"
    /\ UNCHANGED <<op, args, locals, attempt, search_calls, client>>

\* lines 85-97: the delegate is called and raises exc
ScrapeRaises(exc) ==
    /\ pc = "gpt_try"
    /\ attempt < max_retries
    /\ scrape_calls' = Append(scrape_calls, scrape_args(locals))
    /\ log' = Append(log, CallEvent(exc, "", Len(scrape_calls) + 1))
    /\ IF is_caught(exc) /\ attempts_remain(attempt)
       THEN /\ pc' = "gpt_sleep"
            /\ outcome' = outcome
       ELSE /\ pc' = "done"
            /\ outcome' = Propagated(exc, Len(scrape_calls) + 1)
    /\ UNCHANGED <<op, args, locals, attempt, search_calls, client>>

\* lines 95-96 and 82: time.sleep(2), continue, the next attempt
GptSleep ==
    /\ pc = "gpt_sleep"
    /\ log' = Append(log, SleepEvent(sleep_seconds))
    /\ attempt' = attempt + 1
    /\ pc' = "gpt_try"
    /\ UNCHANGED <<op, args, locals, scrape_calls, search_calls, outcome, client>>

\* web is called with the arguments a: lines 115-127, up to the delegate call
web(a) ==
    /\ op' = "web"
    /\ args' = a
    /\ LET zone == resolve_zone(a.zone, client)
           max_workers == resolve_max_workers(a.max_workers, client)
           v == web_validate(a.query)
       IN IF v.kind = "raise"
          THEN /\ pc' = "done"
               /\ outcome' = v
               /\ locals' = NoLocals
          ELSE /\ pc' = "web_try"
               /\ outcome' = outcome
               /\ locals' = [zone |-> zone, max_workers |-> max_workers]
    /\ UNCHANGED <<attempt, scrape_calls, search_calls, log, client>>

WebCall ==
    /\ pc = "idle"
    /\ \E a \in WebInputs : web(a)

\* lines 129-132: the delegate is called and returns r, which web returns
SearchReturns(r) ==
    /\ pc = "web_try"
    /\ search_calls' = Append(search_calls, search_args(args, locals.zone, locals.max_workers))
    /\ log' = Append(log, CallEvent("return", r, 0))
    /\ outcome' = Returned(r)
    /\ pc' = "done"
    /\ UNCHANGED <<op, args, locals, attempt, scrape_calls, client>>

\* lines 129-132: the delegate is called and raises exc, which nothing catches
SearchRaises(exc) ==
    /\ pc = "web_try"
    /\ search_calls' = Append(search_calls, search_args(args, locals.zone, locals.max_workers))
    /\ log' = Append(log, CallEvent(exc, "", Len(search_calls) + 1))
    /\ outcome' = Propagated(exc, Len(search_calls) + 1)
    /\ pc' = "done"
    /\ UNCHANGED <<op, args, locals, attempt, scrape_calls, client>>

Next ==
    \/ GptCall
    \/ \E r \in Results : ScrapeReturns(r)
    \/ \E exc \in Errors : ScrapeRaises(exc)
    \/ GptSleep
    \/ WebCall
    \/ \E r \in Results : SearchReturns(r)
    \/ \E exc \in Errors : SearchRaises(exc)

Spec == Init /\ [][Next]_vars

----------------------------------------------------------------------------
(* Vocabulary of the properties *)

SleepCount == Cardinality({i \in DOMAIN log : log[i].kind = "sleep"})
CallCount == Cardinality({i \in DOMAIN log : log[i].kind = "call"})

\* the prompt is a string or a non-empty list of strings
HasPrompts(a) ==
    \/ a.prompt.t = "str"
    \/ /\ a.prompt.t = "list"
       /\ Len(a.prompt.l) >= 1
       /\ \A i \in DOMAIN a.prompt.l : a.prompt.l[i].t = "str"

\* N, the number of prompts
PromptCount(a) == IF a.prompt.t = "list" THEN Len(a.prompt.l) ELSE 1

\* the companion parameter is a list of a length other than N
WrongLength(param, a) == param.t = "list" /\ Len(param.l) # PromptCount(a)

SomeWrongLength(a) ==
    \/ WrongLength(a.country, a)
    \/ WrongLength(a.secondaryPrompt, a)
    \/ WrongLength(a.webSearch, a)

\* the broadcast of a companion parameter to N entries
Broadcast(param, N) ==
    IF param.t = "list" THEN param.l ELSE [i \in 1..N |-> param]

\* the entries a companion parameter broadcasts to
Entries(param) ==
    IF param.t = "list" THEN {param.l[i] : i \in DOMAIN param.l} ELSE {param}

\* null or the empty string
NullOrEmpty(v) == v = PyNone \/ v = PyStr(<<>>)

\* a string of exactly two uppercase ASCII letters
TwoUppercase(v) ==
    /\ v.t = "str"
    /\ Len(v.s) = 2
    /\ \A i \in 1..2 : v.s[i] \in UpperAZ

BadCountry(v) == ~NullOrEmpty(v) /\ ~TwoUppercase(v)

\* a positive integer, as Python counts integers: True is the integer 1
PositiveInteger(v) == v.t \in {"int", "bool"} /\ v.n > 0

BadTimeout(v) == v # PyNone /\ ~PositiveInteger(v)

\* a string with a character that is not whitespace
NonBlankString(v) ==
    /\ v.t = "str"
    /\ \E i \in DOMAIN v.s : v.s[i] \notin Whitespace

\* a valid query of web: a non-blank string or a non-empty list of them
ValidQuery(q) ==
    \/ NonBlankString(q)
    \/ /\ q.t = "list"
       /\ Len(q.l) >= 1
       /\ \A i \in DOMAIN q.l : NonBlankString(q.l[i])

\* an input of gpt that fails validation
InvalidGptInput(a) ==
    \/ ~HasPrompts(a)
    \/ SomeWrongLength(a)
    \/ \E c \in Entries(a.country) : BadCountry(c)
    \/ \E x \in Entries(a.secondaryPrompt) : x # PyNone /\ x.t # "str"
    \/ \E w \in Entries(a.webSearch) : w.t # "bool"
    \/ BadTimeout(a.timeout)

----------------------------------------------------------------------------
(* C1: a gpt call that passed validation calls the delegate at most 3      *)
(* times; the log is call, sleep(2), call, sleep(2), call, where every     *)
(* call before a sleep raised APIError and every APIError on call 1 or 2   *)
(* is followed by one sleep of 2 seconds and then the next call; a call    *)
(* that succeeds after k failures ends gpt with its result after k+1 calls *)
(* and k sleeps; a third APIError ends gpt with that error, after 3 calls  *)
(* and 2 sleeps.                                                           *)
C1_RetryContract ==
    op = "gpt" =>
        /\ Len(scrape_calls) <= 3
        /\ CallCount = Len(scrape_calls)
        /\ \A i \in DOMAIN log :
              /\ i % 2 = 1 => log[i].kind = "call"
              /\ i % 2 = 0 =>
                    /\ log[i].kind = "sleep"
                    /\ log[i].secs = 2
                    /\ log[i - 1].out = "APIError"
                    /\ i < Len(log) \/ pc = "gpt_try"
              /\ (log[i].kind = "call" /\ log[i].out = "APIError" /\ i < 5) =>
                    i < Len(log) \/ pc = "gpt_sleep"
              /\ (log[i].kind = "call" /\ log[i].out = "return") =>
                    /\ i = Len(log)
                    /\ pc = "done"
                    /\ outcome = Returned(log[i].val)
                    /\ CallCount = SleepCount + 1
                    /\ SleepCount \in 0..2
              /\ (log[i].kind = "call" /\ log[i].out = "APIError" /\ i = 5) =>
                    /\ i = Len(log)
                    /\ pc = "done"
                    /\ outcome = Propagated("APIError", 3)
                    /\ CallCount = 3
                    /\ SleepCount = 2
        /\ (pc = "done" /\ outcome.exc = "APIError") => CallCount = 3 /\ SleepCount = 2

\* the delegate failed three times and gpt re-raised the third error
C1_Witness ==
    /\ op = "gpt"
    /\ pc = "done"
    /\ outcome = Propagated("APIError", 3)
    /\ Len(scrape_calls) = 3
    /\ SleepCount = 2

(* C2: in gpt, a delegate error that is not an APIError ends the call at   *)
(* once with that same error: it is the last entry of the log, no sleep    *)
(* and no delegate call follows it, on whichever attempt it was raised.    *)
C2_OtherErrorPropagates ==
    op = "gpt" =>
        \A i \in DOMAIN log :
            (log[i].kind = "call" /\ log[i].out \notin {"return", "APIError"}) =>
                /\ i = Len(log)
                /\ pc = "done"
                /\ outcome = Propagated(log[i].out, log[i].err)
                /\ log[i].err = CallCount

\* the third attempt raised an error that is not an APIError
C2_Witness ==
    /\ op = "gpt"
    /\ Len(log) = 5
    /\ log[5].out = "OtherError"
    /\ outcome = Propagated("OtherError", 3)

(* C3: a gpt input that fails validation raises ValidationError with no    *)
(* delegate call and no sleep, and the delegate is called only for inputs  *)
(* that pass every validation check.                                       *)
C3_InvalidInputRaisesValidationError ==
    (op = "gpt" /\ pc = "done") =>
        /\ InvalidGptInput(args) =>
              /\ outcome.kind = "raise"
              /\ outcome.exc = "ValidationError"
              /\ scrape_calls = <<>>
              /\ SleepCount = 0
        /\ scrape_calls # <<>> => ~InvalidGptInput(args)

(* C4: with N >= 1 prompts, a country, secondaryPrompt or webSearch list   *)
(* of a length other than N makes gpt raise ValidationError without a      *)
(* delegate call, whatever the other two companion parameters are.         *)
C4_WrongLengthRejected ==
    (op = "gpt" /\ HasPrompts(args) /\ SomeWrongLength(args)) =>
        /\ pc = "done"
        /\ outcome.kind = "raise"
        /\ outcome.exc = "ValidationError"
        /\ scrape_calls = <<>>

\* a webSearch list of the wrong length is rejected although the country is
\* a value the country check itself cannot handle
C4_Witness ==
    /\ op = "gpt"
    /\ HasPrompts(args)
    /\ args.country = PyInt(5)
    /\ ~WrongLength(args.secondaryPrompt, args)
    /\ WrongLength(args.webSearch, args)
    /\ outcome.exc = "ValidationError"

(* C5: every delegate call of gpt receives the prompts (a single string as *)
(* a one-element list) and three companion lists of the prompts' length N, *)
(* each the caller's list or the caller's scalar (the default when none    *)
(* was given) repeated N times.                                            *)
C5_DelegateReceivesBroadcast ==
    op = "gpt" =>
        \A k \in DOMAIN scrape_calls :
            LET d == scrape_calls[k]
                N == PromptCount(args)
            IN  /\ d.prompts = (IF args.prompt.t = "str" THEN <<args.prompt>> ELSE args.prompt.l)
                /\ Len(d.prompts) = N
                /\ d.countries = Broadcast(args.country, N)
                /\ d.additional_prompts = Broadcast(args.secondaryPrompt, N)
                /\ d.web_searches = Broadcast(args.webSearch, N)
                /\ Len(d.countries) = N
                /\ Len(d.additional_prompts) = N
                /\ Len(d.web_searches) = N

\* two prompts, a scalar country, no secondary prompt and a list of flags
C5_Witness ==
    /\ op = "gpt"
    /\ scrape_calls # <<>>
    /\ Len(scrape_calls[1].prompts) = 2
    /\ args.country = US
    /\ scrape_calls[1].countries = <<US, US>>
    /\ scrape_calls[1].additional_prompts = <<PyNone, PyNone>>
    /\ scrape_calls[1].web_searches = <<PyBool(TRUE), PyBool(FALSE)>>

(* C6: a broadcast country entry that is neither null, empty nor two       *)
(* uppercase ASCII letters makes gpt raise ValidationError, and every      *)
(* country entry the delegate receives is null, empty or two uppercase     *)
(* ASCII letters.                                                          *)
C6_CountryEntriesChecked ==
    op = "gpt" =>
        /\ ( /\ pc = "done"
             /\ HasPrompts(args)
             /\ ~SomeWrongLength(args)
             /\ \E c \in Entries(args.country) : BadCountry(c) ) =>
                /\ outcome.kind = "raise"
                /\ outcome.exc = "ValidationError"
        /\ \A k \in DOMAIN scrape_calls :
              \A i \in DOMAIN scrape_calls[k].countries :
                  ~BadCountry(scrape_calls[k].countries[i])

(* C7: web raises the empty/null error for a null or empty query, the      *)
(* wrong-type error for every query that is neither a string nor a list,   *)
(* and the list-element error for a list with an element that is not a     *)
(* non-blank string, all without a delegate call; a list of non-blank      *)
(* strings reaches the delegate unchanged.                                 *)
C7_WebErrorKinds ==
    (op = "web" /\ pc = "done") =>
        LET q == args.query IN
        /\ (q = PyNone \/ q = PyStr(<<>>) \/ q = PyList(<<>>)) =>
              /\ outcome = Raised("ValueError", MsgQueryNone)
              /\ search_calls = <<>>
        /\ q.t \notin {"NoneType", "str", "list"} =>
              /\ outcome = Raised("TypeError", MsgQueryType)
              /\ search_calls = <<>>
        /\ (q.t = "list" /\ \E i \in DOMAIN q.l : ~NonBlankString(q.l[i])) =>
              /\ outcome = Raised("ValueError", MsgQueryList)
              /\ search_calls = <<>>
        /\ (q.t = "list" /\ ValidQuery(q)) =>
              /\ Len(search_calls) = 1
              /\ search_calls[1].query = q

Verbatim(d) == [d EXCEPT !.zone = PyNone, !.max_workers = PyNone]

\* what web does apart from choosing zone and max_workers: at most one
\* delegate call and no sleep, every other parameter forwarded as given, the
\* delegate's result returned and its error raised as they are, and the
\* client's configuration left alone
WebForwardsOnce ==
    /\ Len(search_calls) <= 1
    /\ SleepCount = 0
    /\ scrape_calls = <<>>
    /\ client = ClientConfig
    /\ \A k \in DOMAIN search_calls : Verbatim(search_calls[k]) = Verbatim(args)
    /\ (ValidQuery(args.query) /\ pc = "web_try") => search_calls = <<>>
    /\ (ValidQuery(args.query) /\ pc = "done") =>
          /\ Len(search_calls) = 1
          /\ Len(log) = 1
          /\ log[1].out = "return" => outcome = Returned(log[1].val)
          /\ log[1].out # "return" => outcome = Propagated(log[1].out, 1)

(* C9 as stated: web with a valid query calls the delegate once, with the  *)
(* caller's zone if one was given and the configured SERP zone otherwise,  *)
(* with the caller's max_workers if one was given and the configured       *)
(* default otherwise, and everything else as WebForwardsOnce says.         *)
C9_GivenValuesForwarded ==
    op = "web" =>
        /\ WebForwardsOnce
        /\ \A k \in DOMAIN search_calls :
              /\ search_calls[k].zone =
                    (IF args.zone # PyNone THEN args.zone ELSE ClientConfig.serp_zone)
              /\ search_calls[k].max_workers =
                    (IF args.max_workers # PyNone THEN args.max_workers
                     ELSE ClientConfig.DEFAULT_MAX_WORKERS)

(* C9 amended: web with a valid query calls the delegate once, with the    *)
(* caller's zone if it is given and not empty and the configured SERP zone *)
(* otherwise, with the caller's max_workers if it is given and not 0 and   *)
(* the configured default otherwise, and everything else as                *)
(* WebForwardsOnce says.                                                   *)
C9_TruthyValuesForwarded ==
    op = "web" =>
        /\ WebForwardsOnce
        /\ \A k \in DOMAIN search_calls :
              /\ search_calls[k].zone =
                    (IF args.zone # PyNone /\ args.zone # PyStr(<<>>) THEN args.zone
                     ELSE ClientConfig.serp_zone)
              /\ search_calls[k].max_workers =
                    (IF args.max_workers # PyNone /\ args.max_workers.n # 0
                     THEN args.max_workers
                     ELSE ClientConfig.DEFAULT_MAX_WORKERS)

\* an empty zone and a max_workers of 0 were given, and the delegate was
\* called with the configured ones and returned
C9_Witness ==
    /\ op = "web"
    /\ pc = "done"
    /\ args.zone = PyStr(<<>>)
    /\ args.max_workers = PyInt(0)
    /\ outcome.kind = "return"
    /\ Len(search_calls) = 1
    /\ search_calls[1].zone = ClientConfig.serp_zone
    /\ search_calls[1].max_workers = ClientConfig.DEFAULT_MAX_WORKERS

(* C10: every prompts list the delegate receives from gpt has at least one *)
(* element and only non-empty strings; an empty string as the prompt, or   *)
(* in the prompt list, makes gpt raise ValidationError.                    *)
C10_PromptsNonEmptyStrings ==
    op = "gpt" =>
        /\ \A k \in DOMAIN scrape_calls :
              LET ps == scrape_calls[k].prompts IN
              /\ Len(ps) >= 1
              /\ \A i \in DOMAIN ps : ps[i].t = "str" /\ Len(ps[i].s) > 0
        /\ ( /\ pc = "done"
             /\ \/ args.prompt = PyStr(<<>>)
                \/ /\ args.prompt.t = "list"
                   /\ \E i \in DOMAIN args.prompt.l : args.prompt.l[i] = PyStr(<<>>) ) =>
                /\ outcome.kind = "raise"
                /\ outcome.exc = "ValidationError"

====
